---- MODULE Spec2Model ----
(***************************************************************************)
(* Model of the rate limiting and locking code of the repository:          *)
(*   RateLimiter      src/rate-limiter.ts      (token bucket, per client)   *)
(*   DistributedLock  src/src/rate-limiter.ts  (keyed lock with timeout)    *)
(*                                                                         *)
(* Every method of both classes is an async (or plain) function whose body *)
(* holds no await: on a JavaScript runtime it runs to completion once      *)
(* called, so each call is one atomic action here, and "concurrent" calls  *)
(* are calls taken in any order, with the clock free to advance between    *)
(* them.                                                                   *)
(***************************************************************************)
EXTENDS Integers, Sequences, FiniteSets, TLC

\* ------------------------------------------------------------------ bounds
\* Largest value of the clock (Date.now()) the model explores.
MaxTime == 7
\* Windows of the documented instance explored after the clock's start.
InstanceWindows == 3
\* checkLimit calls explored beyond the capacity maxRequests + burstAllowance:
\* the buckets alive at one time receive at most capacity + ExtraCalls calls
\* (counted from each bucket's creation).
ExtraCalls == 2

\* Largest timeoutMs passed to acquire, and largest value of the clock in the
\* runs of the lock.
MaxTtl == 2
MaxLockTime == 4

\* Most clock units between the bodies of two acquire calls issued together.
ConcurrencyGap == 1

\* Largest value of the clock in the runs of DistributedRateLimiter.
MaxDistTime == 4

\* ApiGateway: requests explored for each client other than the busiest one,
\* and how far the clock moves on, in one step, while requests come in.
MaxQuietRequests == 1
MaxAltStamps == 2
GatewayTick == 30500

\* The clock starts at 1: Date.now() is a positive number of milliseconds.
StartTime == 1
\* Ghost value for "no such time"; never a value of the clock.
NoTime == StartTime - 1

\* Client identifiers passed to checkLimit / resetLimit / getStatus.
Keys == {"k1", "k2"}
\* The identifier ApiGateway uses for a request that names no client.
Anonymous == "anonymous"
\* Every identifier a limiter of the model is called with.
AllKeys == Keys \cup {Anonymous}

Min(a, b) == IF a < b THEN a ELSE b
Max(a, b) == IF a > b THEN a ELSE b

\* ------------------------------------------------------------ configuration
\* burstAllowance is optional in RateLimitConfig: in a configuration handed to
\* the constructor it is held as a set of at most one number, Undefined when
\* it is omitted.
Undefined == {}

\* Valid configurations given to the constructor (maxRequests > 0,
\* windowMs > 0, burstAllowance >= 0 or omitted), with windows of a few clock
\* units.
RawConfigs ==
    { [maxRequests |-> 1, windowMs |-> 2, burstAllowance |-> Undefined],
      [maxRequests |-> 1, windowMs |-> 2, burstAllowance |-> {0}],
      [maxRequests |-> 2, windowMs |-> 2, burstAllowance |-> {0}],
      [maxRequests |-> 2, windowMs |-> 2, burstAllowance |-> {1}],
      [maxRequests |-> 1, windowMs |-> 3, burstAllowance |-> {2}] }

\* The documented instance: maxRequests=5, windowMs=1000, burstAllowance=2.
InstanceConfig == [maxRequests |-> 5, windowMs |-> 1000, burstAllowance |-> {2}]

\* Configurations with a burst up to maxRequests and with a larger one, and a
\* window short enough for a bucket to be evicted and used again.
BurstConfigs ==
    { [maxRequests |-> 2, windowMs |-> 2, burstAllowance |-> {1}],
      [maxRequests |-> 1, windowMs |-> 2, burstAllowance |-> {2}] }

\* Configurations outside maxRequests > 0, windowMs > 0, burstAllowance >= 0
\* that a caller can pass to the constructor (windowMs is kept positive here,
\* so that elapsed / windowMs stays an integer division).
InvalidConfigs ==
    { [maxRequests |-> 0, windowMs |-> 2, burstAllowance |-> Undefined],
      [maxRequests |-> 0 - 1, windowMs |-> 2, burstAllowance |-> {1}],
      [maxRequests |-> 2, windowMs |-> 2, burstAllowance |-> {0 - 1}] }

\* Token amounts (maxRequests, the burst, tokens, remaining) are JavaScript
\* numbers. A configuration with a fractional burst carries a field `unit`, and
\* its token amounts are held as whole multiples of 1/unit; One(cfg) is then
\* the integer that stands for the number 1. Without the field the amounts are
\* whole numbers.
One(cfg) == IF "unit" \in DOMAIN cfg THEN cfg.unit ELSE 1

\* Math.floor(x) on a token amount.
Floor(x, cfg) == (x \div One(cfg)) * One(cfg)

\* Configurations for the two limiters side by side, token amounts in halves:
\* maxRequests 1 with a burst of 1, maxRequests 1 with a burst of 1/2, and
\* maxRequests 2 with a burst of -1.
PairConfigs ==
    { [maxRequests |-> 2, windowMs |-> 2, burstAllowance |-> {2}, unit |-> 2],
      [maxRequests |-> 2, windowMs |-> 2, burstAllowance |-> {1}, unit |-> 2],
      [maxRequests |-> 4, windowMs |-> 2, burstAllowance |-> {0 - 2}, unit |-> 2] }

\* `x || 0` on an optional number: undefined and 0 both give 0.
OrZero(x) == IF x = Undefined THEN 0 ELSE CHOOSE n \in x : TRUE

\* constructor: this.config = { ...config, burstAllowance: config.burstAllowance || 0 }
Constructor(raw) == [raw EXCEPT !.burstAllowance = OrZero(raw.burstAllowance)]

VARIABLES
    now,        \* Date.now()
    config,     \* RateLimiter.config
    buckets,    \* RateLimiter.buckets : Map<string, BucketEntry>
    lastRes,    \* ghost: the last step taken and what it returned
    created,    \* ghost: per key, when its current bucket was created
    allowedN,   \* ghost: per key, allowed results since the bucket was created
    rejN,       \* ghost: per key, rejected results since the bucket was created
    touched,    \* ghost: per key, time of the last checkLimit since the last resetLimit
    highTotal,  \* ghost: per key, highest totalRequests seen since the last resetLimit
    locks,      \* DistributedLock.locks : Map<string, number>
    grant,      \* ghost: per lock key, the last acquire that returned true
    distRaw,    \* ghost: the argument DistributedRateLimiter was constructed with
    distConfig, \* DistributedRateLimiter.config
    distBuckets,        \* DistributedRateLimiter.buckets : Map<string, TokenBucket>
    requestTimestamps,  \* DistributedRateLimiter.requestTimestamps : Map<string, number[]>
    distCreated,        \* ghost: per key, when its current TokenBucket was created
    request     \* ApiGateway.handleRequest: the request in flight, or the last one answered

vars == <<now, config, buckets, lastRes, created, allowedN, rejN, touched, highTotal,
          locks, grant, distRaw, distConfig, distBuckets, requestTimestamps, distCreated,
          request>>
ghost == <<created, allowedN, rejN, touched, highTotal>>
limiterVars == <<config, buckets, created, allowedN, rejN, touched, highTotal>>
lockVars == <<locks, grant>>
distVars == <<distRaw, distConfig, distBuckets, requestTimestamps, distCreated>>
gatewayVars == <<request>>

\* --------------------------------------------------------------- RateLimiter
\* this.config.maxRequests + (this.config.burstAllowance || 0), on the
\* constructed config, whose burstAllowance is a number n (n || 0 is n).
MaxTokens(cfg) == cfg.maxRequests + cfg.burstAllowance

\* Mutant: a new bucket gets no burst.
NewBucketNoBurst(cfg, t) ==
    [tokens |-> cfg.maxRequests, lastRefill |-> t, totalRequests |-> 0]

\* The bucket checkLimit creates for a key that has none.
NewBucket(cfg, t) ==
    [tokens |-> MaxTokens(cfg), lastRefill |-> t, totalRequests |-> 0]

\* Mutant: every entry of the map is the one object that is written.
MapSetShared(m, k, v) == [x \in DOMAIN m \cup {k} |-> v]

\* Mutant: the write goes to an object the map does not hold when the key is new.
MapSetDetached(m, k, v) == IF k \in DOMAIN m THEN [m EXCEPT ![k] = v] ELSE m

\* Mutant: the delete is a no-op.
MapDeleteNothing(m, k) == m

\* Map.set / Map.delete on a map held as a function on the keys present.
MapSet(m, k, v) == [x \in DOMAIN m \cup {k} |-> IF x = k THEN v ELSE m[x]]
MapDelete(m, k) == [x \in DOMAIN m \ {k} |-> m[x]]

\* Mutant: a window counts only once the clock is past its end.
RefillCountStrict(b, cfg, t) ==
    IF t - b.lastRefill > cfg.windowMs
    THEN ((t - b.lastRefill) \div cfg.windowMs) * cfg.maxRequests
    ELSE 0

\* Mutant: a window that has begun counts as a whole one.
RefillCountRoundsUp(b, cfg, t) ==
    ((t - b.lastRefill + cfg.windowMs - 1) \div cfg.windowMs) * cfg.maxRequests

\* Math.floor(elapsed / windowMs) * maxRequests
RefillCount(b, cfg, t) == ((t - b.lastRefill) \div cfg.windowMs) * cfg.maxRequests

\* Mutant: the refill adds the tokens without the cap.
RefillUncapped(b, cfg, t) ==
    IF RefillCount(b, cfg, t) > 0
    THEN [b EXCEPT !.tokens = b.tokens + RefillCount(b, cfg, t), !.lastRefill = t]
    ELSE b

\* Mutant: the refill fills the bucket up, whatever it held.
RefillToFull(b, cfg, t) ==
    IF RefillCount(b, cfg, t) > 0
    THEN [b EXCEPT !.tokens = MaxTokens(cfg), !.lastRefill = t]
    ELSE b

\* Mutant: lastRefill moves on by the whole windows that were counted.
RefillByWindows(b, cfg, t) ==
    IF RefillCount(b, cfg, t) > 0
    THEN [b EXCEPT !.tokens = Min(MaxTokens(cfg), b.tokens + RefillCount(b, cfg, t)),
                   !.lastRefill = b.lastRefill
                       + ((t - b.lastRefill) \div cfg.windowMs) * cfg.windowMs]
    ELSE b

\* Mutant: every call stamps lastRefill, refill or not.
RefillStampsAlways(b, cfg, t) ==
    [b EXCEPT !.tokens = Min(MaxTokens(cfg), b.tokens + RefillCount(b, cfg, t)),
              !.lastRefill = t]

\* Mutant: a refill starts the bucket over, counter included.
RefillRecreates(b, cfg, t) ==
    IF RefillCount(b, cfg, t) > 0
    THEN [tokens |-> Min(MaxTokens(cfg), b.tokens + RefillCount(b, cfg, t)),
          lastRefill |-> t, totalRequests |-> 0]
    ELSE b

\* The refill step of checkLimit.
Refill(b, cfg, t) ==
    IF RefillCount(b, cfg, t) > 0
    THEN [b EXCEPT !.tokens = Min(MaxTokens(cfg), b.tokens + RefillCount(b, cfg, t)),
                   !.lastRefill = t]
    ELSE b

\* The bucket checkLimit works on: the stored one, or a new one; refilled.
Fetched(m, cfg, k, t) ==
    Refill(IF k \in DOMAIN m THEN m[k] ELSE NewBucket(cfg, t), cfg, t)

\* Mutant: the last token is never handed out.
RejectsLastToken(b, cfg) == b.tokens - One(cfg) <= 0

\* remaining < 0 : the request is rejected.
Rejects(b, cfg) == b.tokens - One(cfg) < 0

\* Mutant: the request is counted but the decrement of tokens is lost.
ConsumeLostUpdate(b, cfg) == [b EXCEPT !.totalRequests = b.totalRequests + 1]

\* Mutant: the token is taken but the request is not counted.
ConsumeUncounted(b, cfg) == [b EXCEPT !.tokens = b.tokens - One(cfg)]

\* Consume a token.
Consume(b, cfg) ==
    [b EXCEPT !.tokens = b.tokens - One(cfg), !.totalRequests = b.totalRequests + 1]

\* The bucket checkLimit leaves in the map.
BucketAfter(m, cfg, k, t) ==
    LET b == Fetched(m, cfg, k, t) IN IF Rejects(b, cfg) THEN b ELSE Consume(b, cfg)

\* Mutant: remaining is read before the token is taken, and a rejection
\* carries no retryAfter.
ResultOfStale(m, cfg, k, t) ==
    LET b == Fetched(m, cfg, k, t) IN
    IF Rejects(b, cfg)
    THEN [allowed |-> FALSE, remaining |-> 0, resetAt |-> b.lastRefill + cfg.windowMs]
    ELSE [allowed |-> TRUE, remaining |-> b.tokens,
          resetAt |-> b.lastRefill + cfg.windowMs]

\* The RateLimitResult checkLimit returns.
ResultOf(m, cfg, k, t) ==
    LET b == Fetched(m, cfg, k, t) IN
    IF Rejects(b, cfg)
    THEN [allowed |-> FALSE, remaining |-> 0,
          resetAt |-> b.lastRefill + cfg.windowMs,
          retryAfter |-> Max(0, b.lastRefill + cfg.windowMs - t)]
    ELSE [allowed |-> TRUE, remaining |-> Consume(b, cfg).tokens,
          resetAt |-> b.lastRefill + cfg.windowMs]

\* Mutant: an entry at exactly twice the window is expired too.
ExpiredAtThreshold(b, cfg, t) == t - b.lastRefill >= cfg.windowMs * 2

\* Mutant: the threshold is one window.
ExpiredOneWindow(b, cfg, t) == t - b.lastRefill > cfg.windowMs

\* cleanup's test on one entry.
Expired(b, cfg, t) == t - b.lastRefill > cfg.windowMs * 2

\* The keys cleanup deletes.
Evicted(m, cfg, t) == {k \in DOMAIN m : Expired(m[k], cfg, t)}

\* The map cleanup leaves.
CleanupMap(m, cfg, t) == [k \in DOMAIN m \ Evicted(m, cfg, t) |-> m[k]]

\* reduce((sum, b) => sum + b.totalRequests, 0) over the buckets.
RECURSIVE SumTotal(_, _)
SumTotal(m, ks) ==
    IF ks = {} THEN 0
    ELSE LET k == CHOOSE x \in ks : TRUE IN m[k].totalRequests + SumTotal(m, ks \ {k})

\* getStats()
GetStatsOf(m) ==
    [activeClients |-> Cardinality(DOMAIN m), totalTracked |-> SumTotal(m, DOMAIN m)]

\* ----------------------------------------------------------- DistributedLock
\* Callers of the lock, and the timeoutMs values they pass.
Callers == {"p", "q"}
TTLs == 1..MaxTtl

\* ghost: no acquire has returned true on the key, or its holder released it.
NoGrant == [by |-> "none", at |-> NoTime, ttl |-> 0,
            onFree |-> FALSE, rel |-> FALSE, fresh |-> FALSE]

\* Mutant: the comparison with timeoutMs is turned around.
HeldWrongWay(m, k, t, timeoutMs) == k \in DOMAIN m /\ m[k] # 0 /\ (t - m[k]) > timeoutMs

\* Mutant: an entry never expires.
HeldForever(m, k, t, timeoutMs) == k \in DOMAIN m /\ m[k] # 0

\* `owner && (now - owner) < timeoutMs`, owner = this.locks.get(key): a missing
\* entry (undefined) and the number 0 are falsy.
Held(m, k, t, timeoutMs) == k \in DOMAIN m /\ m[k] # 0 /\ (t - m[k]) < timeoutMs

\* Mutant: a refused acquire stamps the entry with the time of the attempt.
AcquireMapRefreshes(m, k, t, timeoutMs) == MapSet(m, k, t)

\* What acquire leaves in the map: untouched when refused, else key -> now.
AcquireMap(m, k, t, timeoutMs) == IF Held(m, k, t, timeoutMs) THEN m ELSE MapSet(m, k, t)

\* release(key): this.locks.delete(key), whoever calls.
ReleaseMap(m, k) == MapDelete(m, k)

\* ---------------------------------------------------- DistributedRateLimiter
\* The defaults of the constructor.
DefaultMaxRequests == 100
DefaultWindowMs == 60000
DefaultBurstLimit == 10

\* `x || d` on an optional number: undefined and 0 both give d.
OrElse(x, d) == IF x = Undefined \/ x = {0} THEN d ELSE CHOOSE n \in x : TRUE

\* Arguments of the constructor: each field is a number, or left out.
DistRawConfigs ==
    [maxRequests : {{1}, {2}}, windowMs : {{2}}, burstLimit : {Undefined, {0}, {1}}]

\* The documented instance, for DistributedRateLimiter.
DistInstanceConfig == [maxRequests |-> {5}, windowMs |-> {1000}, burstLimit |-> {2}]

\* constructor(config)
DistConstructor(raw) ==
    [raw EXCEPT !.maxRequests = OrElse(raw.maxRequests, DefaultMaxRequests * One(raw)),
                !.windowMs = OrElse(raw.windowMs, DefaultWindowMs),
                !.burstLimit = OrElse(raw.burstLimit, DefaultBurstLimit * One(raw))]

\* this.config.maxRequests + this.config.burstLimit
DistMaxTokens(cfg) == cfg.maxRequests + cfg.burstLimit

\* The bucket checkLimit creates for a client that has none.
DistNewBucket(cfg, t) == [tokens |-> DistMaxTokens(cfg), lastRefill |-> t, requests |-> 0]

\* Mutant: the refill leaves lastRefill where it was.
DistRefillKeepsStamp(b, cfg, t) ==
    LET refills == (t - b.lastRefill) \div cfg.windowMs IN
    IF refills > 0
    THEN [b EXCEPT !.tokens = Min(DistMaxTokens(cfg), b.tokens + refills * cfg.maxRequests)]
    ELSE b

\* refills = Math.floor(elapsed / windowMs); the bucket after the refill step.
DistRefill(b, cfg, t) ==
    LET refills == (t - b.lastRefill) \div cfg.windowMs IN
    IF refills > 0
    THEN [b EXCEPT !.tokens = Min(DistMaxTokens(cfg), b.tokens + refills * cfg.maxRequests),
                   !.lastRefill = t]
    ELSE b

\* The bucket checkLimit works on: the stored one, or a new one; refilled.
DistFetched(m, cfg, k, t) ==
    DistRefill(IF k \in DOMAIN m THEN m[k] ELSE DistNewBucket(cfg, t), cfg, t)

\* The bucket checkLimit leaves in the map.
DistBucketAfter(m, cfg, k, t) ==
    LET b == DistFetched(m, cfg, k, t) IN
    IF b.tokens >= One(cfg)
    THEN [b EXCEPT !.tokens = b.tokens - One(cfg), !.requests = b.requests + 1]
    ELSE b

\* What checkLimit returns.
DistResultOf(m, cfg, k, t) ==
    LET b == DistFetched(m, cfg, k, t) IN
    IF b.tokens >= One(cfg)
    THEN [allowed |-> TRUE, remaining |-> Floor(b.tokens - One(cfg), cfg),
          resetAt |-> b.lastRefill + cfg.windowMs]
    ELSE [allowed |-> FALSE, remaining |-> 0, resetAt |-> b.lastRefill + cfg.windowMs]

\* trackRequest(clientId, timestamp), its own Date.now() reading t2.
TrackRequest(ts, cfg, k, timestamp, t2) ==
    LET timestamps == IF k \in DOMAIN ts THEN ts[k] ELSE << >>
        windowStart == t2 - cfg.windowMs
        InWindow(t) == t > windowStart
    IN  MapSet(ts, k, Append(SelectSeq(timestamps, InWindow), timestamp))

\* Mutant: the timestamps are a second gate: a client with maxRequests stamps
\* inside the window is refused, whatever its bucket holds.
DistCheckLimitGated(m, ts, cfg, k, t, t2) ==
    LET timestamps == IF k \in DOMAIN ts THEN ts[k] ELSE << >>
        InWindow(x) == x > t - cfg.windowMs
        full == Len(SelectSeq(timestamps, InWindow)) * One(cfg) >= cfg.maxRequests
        res == DistResultOf(m, cfg, k, t)
    IN  IF full
        THEN [res |-> [allowed |-> FALSE, remaining |-> 0, resetAt |-> res.resetAt],
              buckets |-> MapSet(m, k, DistFetched(m, cfg, k, t)),
              timestamps |-> ts]
        ELSE [res |-> res,
              buckets |-> MapSet(m, k, DistBucketAfter(m, cfg, k, t)),
              timestamps |-> IF res.allowed THEN TrackRequest(ts, cfg, k, t, t2) ELSE ts]

\* checkLimit(clientId) as a function of the two maps, the config and the two
\* readings of the clock: what it returns and the maps it leaves.
DistCheckLimitOf(m, ts, cfg, k, t, t2) ==
    LET res == DistResultOf(m, cfg, k, t) IN
    [res |-> res,
     buckets |-> MapSet(m, k, DistBucketAfter(m, cfg, k, t)),
     timestamps |-> IF res.allowed THEN TrackRequest(ts, cfg, k, t, t2) ELSE ts]

\* ---------------------------------------------------------------- ApiGateway
\* constructor: new RateLimiter({ maxRequests: 100, windowMs: 60_000, burstAllowance: 10 })
GatewayConfig == [maxRequests |-> 100, windowMs |-> 60000, burstAllowance |-> {10}]

\* initializeRoutes()
Routes ==
    { [path |-> "/api/payments", method |-> "POST", requiresAuth |-> TRUE, adminOnly |-> FALSE],
      [path |-> "/api/payments/refund", method |-> "POST", requiresAuth |-> TRUE,
       adminOnly |-> FALSE],
      [path |-> "/api/transactions", method |-> "GET", requiresAuth |-> TRUE,
       adminOnly |-> FALSE],
      [path |-> "/api/admin/transactions", method |-> "GET", requiresAuth |-> TRUE,
       adminOnly |-> TRUE],
      [path |-> "/api/admin/rate-limits", method |-> "GET", requiresAuth |-> TRUE,
       adminOnly |-> TRUE] }

\* request.path and request.method of the requests sent: a user route, an
\* admin route, and a pair no route has.
Targets ==
    { [path |-> "/api/payments", method |-> "POST"],
      [path |-> "/api/admin/rate-limits", method |-> "GET"],
      [path |-> "/api/payments", method |-> "GET"] }

\* request.headers['x-client-id'] and ['x-forwarded-for']; "" when not sent.
HeaderSets == [xClientId : {"", "k1"}, xForwardedFor : {"", "k2"}]

\* headers['x-client-id'] || headers['x-forwarded-for'] || 'anonymous'
ClientIdentifier(h) ==
    IF h.xClientId # "" THEN h.xClientId
    ELSE IF h.xForwardedFor # "" THEN h.xForwardedFor
    ELSE Anonymous

\* matchRoute(path, method): the route found, as a set of at most one.
MatchRoute(target) ==
    LET found == {r \in Routes : r.path = target.path /\ r.method = target.method} IN
    IF found = {} THEN {} ELSE {CHOOSE r \in found : TRUE}

\* String(n) for a natural number: its decimal digits.
RECURSIVE DecimalString(_)
DecimalString(n) == IF n < 10 THEN <<n>> ELSE Append(DecimalString(n \div 10), n % 10)

\* Math.ceil(a / b) for a >= 0, b > 0
Ceil(a, b) == (a + b - 1) \div b

\* rateCheck.retryAfter || 0
RetryAfterOrZero(rc) == IF "retryAfter" \in DOMAIN rc THEN rc.retryAfter ELSE 0

\* The 429 response.
TooManyRequests(rc) ==
    [status |-> 429,
     body |-> [error |-> "Too many requests", retryAfter |-> rc.retryAfter],
     headers |-> [RetryAfter |-> DecimalString(Ceil(RetryAfterOrZero(rc), 1000)),
                  XRateLimitRemaining |-> DecimalString(0)]]

\* The responses that carry an error only.
ErrorResponse(status, error) ==
    [status |-> status, body |-> [error |-> error], headers |-> << >>]

\* The 200 response; the handler's result comes from a service outside.
Ok(rc) ==
    [status |-> 200, body |-> "result",
     headers |-> [XRateLimitRemaining |-> DecimalString(rc.remaining)]]

\* No request has been received.
NoRequest ==
    [pc |-> "idle", seq |-> 0, client |-> "", target |-> [path |-> "", method |-> ""],
     rateCheck |-> {}, route |-> {}, steps |-> << >>, response |-> {}]

\* ------------------------------------------------------------------ actions
Zero == [k \in AllKeys |-> 0]

\* new RateLimiter(raw), new DistributedLock()
InitLimiter(raws) ==
    /\ now = StartTime
    /\ \E raw \in raws : config = Constructor(raw)
    /\ buckets = << >>
    /\ lastRes = [op |-> "init"]
    /\ created = [k \in AllKeys |-> NoTime]
    /\ allowedN = Zero
    /\ rejN = Zero
    /\ touched = [k \in AllKeys |-> NoTime]
    /\ highTotal = Zero
    /\ locks = << >>
    /\ grant = [k \in Keys |-> NoGrant]

\* new DistributedRateLimiter(raw)
InitDistributed(raws) ==
    /\ \E raw \in raws : distRaw = raw /\ distConfig = DistConstructor(raw)
    /\ distBuckets = << >>
    /\ requestTimestamps = << >>
    /\ distCreated = [k \in Keys |-> NoTime]

\* The limiter under study, next to an idle DistributedRateLimiter and gateway.
InitWith(raws) ==
    /\ InitLimiter(raws)
    /\ InitDistributed({DistInstanceConfig})
    /\ request = NoRequest

\* ghost: checkLimit calls made on the buckets now alive.
RECURSIVE SumOver(_, _)
SumOver(f, ks) ==
    IF ks = {} THEN 0
    ELSE LET k == CHOOSE x \in ks : TRUE IN f[k] + SumOver(f, ks \ {k})

LiveCalls == SumOver(allowedN, AllKeys) + SumOver(rejN, AllKeys)

Init == InitWith(RawConfigs)

InitInstance == InitWith({InstanceConfig})

\* Time passes between calls: the clock advances by d, up to the horizon.
Tick(d, horizon) ==
    /\ now + d <= horizon
    /\ now' = now + d
    /\ lastRes' = [op |-> "tick"]
    /\ UNCHANGED <<limiterVars, lockVars, distVars, gatewayVars>>

\* The body of checkLimit(identifier): what it does to the limiter.
CheckLimitCall(k) ==
    /\ LiveCalls < MaxTokens(config) \div One(config) + ExtraCalls
    /\ LET res == ResultOf(buckets, config, k, now)
           fresh == k \notin DOMAIN buckets
           a0 == IF fresh THEN 0 ELSE allowedN[k]
           r0 == IF fresh THEN 0 ELSE rejN[k]
       IN /\ buckets' = MapSet(buckets, k, BucketAfter(buckets, config, k, now))
          /\ lastRes' = [op |-> "checkLimit", key |-> k, res |-> res,
                         afterReset |-> lastRes.op = "resetLimit" /\ lastRes.key = k
                                           /\ lastRes.had]
          /\ created' = [created EXCEPT ![k] = IF fresh THEN now ELSE @]
          /\ allowedN' = [allowedN EXCEPT ![k] = a0 + (IF res.allowed THEN 1 ELSE 0)]
          /\ rejN' = [rejN EXCEPT ![k] = r0 + (IF res.allowed THEN 0 ELSE 1)]
          /\ touched' = [touched EXCEPT ![k] = now]
          /\ highTotal' = [highTotal EXCEPT
                             ![k] = Max(@, BucketAfter(buckets, config, k, now).totalRequests)]

\* async checkLimit(identifier)
CheckLimit(k) ==
    /\ CheckLimitCall(k)
    /\ UNCHANGED <<now, config, lockVars, distVars, gatewayVars>>

\* The body of resetLimit(identifier): what it does to the limiter.
ResetLimitCall(k) ==
    /\ buckets' = MapDelete(buckets, k)
    /\ lastRes' = [op |-> "resetLimit", key |-> k, had |-> k \in DOMAIN buckets]
    /\ created' = [created EXCEPT ![k] = NoTime]
    /\ allowedN' = [allowedN EXCEPT ![k] = 0]
    /\ rejN' = [rejN EXCEPT ![k] = 0]
    /\ touched' = [touched EXCEPT ![k] = NoTime]
    /\ highTotal' = [highTotal EXCEPT ![k] = 0]

\* async resetLimit(identifier)
ResetLimit(k) ==
    /\ ResetLimitCall(k)
    /\ UNCHANGED <<now, config, lockVars, distVars, gatewayVars>>

\* Mutant: getStatus gets or creates the bucket and refills it, as checkLimit does.
GetStatusRefreshes(k) ==
    /\ buckets' = MapSet(buckets, k, Fetched(buckets, config, k, now))
    /\ lastRes' = [op |-> "getStatus", key |-> k, found |-> TRUE,
                   entry |-> Fetched(buckets, config, k, now)]
    /\ UNCHANGED <<now, config, ghost, lockVars, distVars, gatewayVars>>

\* async getStatus(identifier): this.buckets.get(identifier) || null
GetStatus(k) ==
    /\ lastRes' = [op |-> "getStatus", key |-> k,
                   found |-> k \in DOMAIN buckets,
                   entry |-> IF k \in DOMAIN buckets THEN buckets[k] ELSE << >>]
    /\ UNCHANGED <<now, limiterVars, lockVars, distVars, gatewayVars>>

\* DistributedRateLimiter.checkLimit(clientId); the clock may have moved on by
\* `late` when trackRequest reads Date.now() again.
DistCheckLimitCall(k, late) ==
    /\ now + late <= MaxDistTime
    /\ LET out == DistCheckLimitOf(distBuckets, requestTimestamps, distConfig, k,
                                   now, now + late)
       IN /\ distBuckets' = out.buckets
          /\ requestTimestamps' = out.timestamps
          /\ now' = IF out.res.allowed THEN now + late ELSE now
          /\ lastRes' = [op |-> "dist.checkLimit", key |-> k, res |-> out.res]
          /\ distCreated' = IF k \in DOMAIN distBuckets THEN distCreated
                            ELSE [distCreated EXCEPT ![k] = now]

DistCheckLimit(k, late) ==
    /\ DistCheckLimitCall(k, late)
    /\ UNCHANGED <<distRaw, distConfig, limiterVars, lockVars, gatewayVars>>

\* DistributedRateLimiter.reset(clientId)
DistReset(k) ==
    /\ distBuckets' = MapDelete(distBuckets, k)
    /\ requestTimestamps' = MapDelete(requestTimestamps, k)
    /\ distCreated' = [distCreated EXCEPT ![k] = NoTime]
    /\ lastRes' = [op |-> "dist.reset", key |-> k]
    /\ UNCHANGED <<now, distRaw, distConfig, limiterVars, lockVars, gatewayVars>>

\* DistributedRateLimiter.getStatus(clientId)
DistGetStatus(k) ==
    /\ lastRes' = [op |-> "dist.getStatus", key |-> k,
                   found |-> k \in DOMAIN distBuckets,
                   entry |-> IF k \in DOMAIN distBuckets THEN distBuckets[k] ELSE << >>]
    /\ UNCHANGED <<now, distVars, limiterVars, lockVars, gatewayVars>>

\* handleRequest(request), lines 94-98: the client identifier is worked out and
\* checkLimit is called; checkLimit holds no await, so its body is over when
\* handleRequest is suspended at its first await.
HandleRequest(h, target) ==
    LET k == ClientIdentifier(h) IN
    /\ request.pc \in {"idle", "done"}
    /\ k # "k1" => allowedN[k] + rejN[k] < MaxQuietRequests
    /\ CheckLimitCall(k)
    /\ request' = [pc |-> "rateCheck", seq |-> request.seq + 1, client |-> k,
                   target |-> target,
                   rateCheck |-> {ResultOf(buckets, config, k, now)},
                   route |-> {}, steps |-> <<"checkLimit">>, response |-> {}]
    /\ UNCHANGED <<now, config, lockVars, distVars>>

\* A step of handleRequest that leaves the limiter alone.
GatewayStep(next) ==
    /\ request' = next
    /\ lastRes' = [op |-> "gateway"]
    /\ UNCHANGED <<now, limiterVars, lockVars, distVars>>

\* The request with its response.
Answered(req, resp) == [req EXCEPT !.pc = "done", !.response = {resp}]

\* The request suspended at the next await, after one more call.
Calling(req, pc, call) == [req EXCEPT !.pc = pc, !.steps = Append(req.steps, call)]

\* Lines 125-135, once the request is authenticated (or needs no authentication).
AfterAuthentication(req, route) ==
    IF route.adminOnly
    THEN Calling(req, "checkAdminAccess", "checkAdminAccess")
    ELSE Calling(req, "handler", "handler")

\* Mutant: the route is matched before the rate check is looked at.
AfterRateCheckRoutesFirst ==
    /\ request.pc = "rateCheck"
    /\ LET rc == CHOOSE r \in request.rateCheck : TRUE
           route == MatchRoute(request.target)
           routed == [request EXCEPT !.steps = Append(request.steps, "matchRoute"),
                                     !.route = route]
       IN  GatewayStep(
             IF route = {} THEN Answered(routed, ErrorResponse(404, "Endpoint not found"))
             ELSE IF ~rc.allowed THEN Answered(routed, TooManyRequests(rc))
             ELSE LET r == CHOOSE x \in route : TRUE IN
                  IF r.requiresAuth
                  THEN Calling(routed, "authenticateRequest", "authenticateRequest")
                  ELSE AfterAuthentication(routed, r))

\* handleRequest resumed with rateCheck, lines 100-119: the 429 answer, or
\* matchRoute and then the 404 answer or the call of authenticateRequest.
AfterRateCheck ==
    /\ request.pc = "rateCheck"
    /\ LET rc == CHOOSE r \in request.rateCheck : TRUE
           route == MatchRoute(request.target)
           routed == [request EXCEPT !.steps = Append(request.steps, "matchRoute"),
                                     !.route = route]
       IN  GatewayStep(
             IF ~rc.allowed THEN Answered(request, TooManyRequests(rc))
             ELSE IF route = {} THEN Answered(routed, ErrorResponse(404, "Endpoint not found"))
             ELSE LET r == CHOOSE x \in route : TRUE IN
                  IF r.requiresAuth
                  THEN Calling(routed, "authenticateRequest", "authenticateRequest")
                  ELSE AfterAuthentication(routed, r))

\* handleRequest resumed with authResult, lines 119-135; whether the token is
\* accepted is up to the request and to authService.
AfterAuthenticateRequest(authenticated) ==
    /\ request.pc = "authenticateRequest"
    /\ GatewayStep(
         IF ~authenticated THEN Answered(request, ErrorResponse(401, "Unauthorized"))
         ELSE AfterAuthentication(request, CHOOSE x \in request.route : TRUE))

\* handleRequest resumed with isAdmin, lines 127-135.
AfterCheckAdminAccess(isAdmin) ==
    /\ request.pc = "checkAdminAccess"
    /\ GatewayStep(
         IF ~isAdmin THEN Answered(request, ErrorResponse(403, "Insufficient permissions"))
         ELSE Calling(request, "handler", "handler"))

\* handleRequest resumed after the handler, lines 135-146: it returned or threw.
AfterHandler(threw) ==
    /\ request.pc = "handler"
    /\ GatewayStep(
         IF threw THEN Answered(request, ErrorResponse(500, "Internal server error"))
         ELSE Answered(request, Ok(CHOOSE r \in request.rateCheck : TRUE)))

\* async cleanup()
Cleanup ==
    /\ buckets' = CleanupMap(buckets, config, now)
    /\ lastRes' = [op |-> "cleanup",
                   removed |-> Cardinality(Evicted(buckets, config, now))]
    /\ created' = [k \in AllKeys |-> IF k \in Evicted(buckets, config, now) THEN NoTime ELSE created[k]]
    /\ allowedN' = [k \in AllKeys |-> IF k \in Evicted(buckets, config, now) THEN 0 ELSE allowedN[k]]
    /\ rejN' = [k \in AllKeys |-> IF k \in Evicted(buckets, config, now) THEN 0 ELSE rejN[k]]
    /\ UNCHANGED <<now, config, touched, highTotal, lockVars, distVars, gatewayVars>>

\* getStats()
GetStats ==
    /\ lastRes' = [op |-> "getStats", stats |-> GetStatsOf(buckets)]
    /\ UNCHANGED <<now, limiterVars, lockVars, distVars, gatewayVars>>

\* async acquire(key, timeoutMs), called by p
Acquire(p, k, timeoutMs) ==
    LET ok == ~Held(locks, k, now, timeoutMs)
        free == k \notin DOMAIN locks
    IN /\ locks' = AcquireMap(locks, k, now, timeoutMs)
       /\ lastRes' = [op |-> "acquire", by |-> p, key |-> k, ttl |-> timeoutMs,
                      ok |-> ok, wasFree |-> free, g |-> grant[k]]
       /\ grant' = [grant EXCEPT ![k] =
                       IF ok
                       THEN [by |-> p, at |-> now, ttl |-> timeoutMs,
                             onFree |-> free \/ now - grant[k].at > grant[k].ttl,
                             rel |-> FALSE, fresh |-> TRUE]
                       ELSE [@ EXCEPT !.fresh = FALSE]]
       /\ UNCHANGED <<now, limiterVars, distVars, gatewayVars>>

\* release(key), called by p; it returns nothing
Release(p, k) ==
    /\ locks' = ReleaseMap(locks, k)
    /\ lastRes' = [op |-> "release", by |-> p, key |-> k, ret |-> "undefined",
                   g |-> grant[k]]
    /\ grant' = [grant EXCEPT ![k] =
                    IF @.by = p \/ @ = NoGrant THEN NoGrant
                    ELSE [@ EXCEPT !.rel = TRUE, !.fresh = FALSE]]
    /\ UNCHANGED <<now, limiterVars, distVars, gatewayVars>>

Next ==
    \/ Tick(1, MaxTime)
    \/ \E k \in Keys : CheckLimit(k)
    \/ \E k \in Keys : ResetLimit(k)
    \/ \E k \in Keys : GetStatus(k)
    \/ Cleanup
    \/ GetStats

\* Any sequence of RateLimiter calls, on two keys, under the small configurations.
Spec == Init /\ [][Next]_vars

\* The documented instance on one key; the clock advances by half windows.
NextInstance ==
    \/ Tick(config.windowMs \div 2, StartTime + InstanceWindows * config.windowMs)
    \/ CheckLimit("k1")
    \/ ResetLimit("k1")
    \/ GetStatus("k1")
    \/ Cleanup
    \/ GetStats

SpecInstance == InitInstance /\ [][NextInstance]_vars

\* A RateLimiter and a DistributedRateLimiter side by side: both are built
\* with the same maxRequests and windowMs and the same burst, and every
\* checkLimit and reset is made on both at the same clock reading.
SameConfig(cfg) ==
    [maxRequests |-> {cfg.maxRequests}, windowMs |-> {cfg.windowMs},
     burstLimit |-> {cfg.burstAllowance}, unit |-> cfg.unit]

InitPair ==
    /\ InitLimiter(PairConfigs)
    /\ InitDistributed({SameConfig(config)})
    /\ request = NoRequest

PairCheckLimit(k) ==
    /\ CheckLimitCall(k)
    /\ LET out == DistCheckLimitOf(distBuckets, requestTimestamps, distConfig, k, now, now)
       IN /\ distBuckets' = out.buckets
          /\ requestTimestamps' = out.timestamps
    /\ distCreated' = IF k \in DOMAIN distBuckets THEN distCreated
                      ELSE [distCreated EXCEPT ![k] = now]
    /\ UNCHANGED <<now, config, distRaw, distConfig, lockVars, gatewayVars>>

PairReset(k) ==
    /\ ResetLimitCall(k)
    /\ distBuckets' = MapDelete(distBuckets, k)
    /\ requestTimestamps' = MapDelete(requestTimestamps, k)
    /\ distCreated' = [distCreated EXCEPT ![k] = NoTime]
    /\ UNCHANGED <<now, config, distRaw, distConfig, lockVars, gatewayVars>>

NextPair ==
    \/ Tick(1, MaxDistTime)
    \/ \E k \in Keys : PairCheckLimit(k)
    \/ \E k \in Keys : PairReset(k)

SpecPair == InitPair /\ [][NextPair]_vars

\* Any sequence of calls for one client on a DistributedRateLimiter, with time
\* passing.
InitDist ==
    /\ InitLimiter({InstanceConfig})
    /\ InitDistributed(DistRawConfigs)
    /\ request = NoRequest

NextDist ==
    \/ Tick(1, MaxDistTime)
    \/ \E late \in {0, 1} : DistCheckLimit("k1", late)
    \/ DistReset("k1")
    \/ DistGetStatus("k1")

SpecDist == InitDist /\ [][NextDist]_vars

\* Requests handled by an ApiGateway one after the other, with time passing.
InitGateway == InitWith({GatewayConfig})

NextGateway ==
    \/ Tick(GatewayTick, StartTime + GatewayTick)
    \/ \E h \in HeaderSets, target \in Targets : HandleRequest(h, target)
    \/ AfterRateCheck
    \/ \E authenticated \in BOOLEAN : AfterAuthenticateRequest(authenticated)
    \/ \E isAdmin \in BOOLEAN : AfterCheckAdminAccess(isAdmin)
    \/ \E threw \in BOOLEAN : AfterHandler(threw)

SpecGateway == InitGateway /\ [][NextGateway]_vars

\* Any sequence of calls on a RateLimiter built with a small or a large burst.
InitBurst == InitWith(BurstConfigs)
SpecBurst == InitBurst /\ [][Next]_vars

\* new RateLimiter(raw) with a configuration that is not valid, then any calls.
InitInvalid == InitWith(InvalidConfigs)
SpecInvalid == InitInvalid /\ [][Next]_vars

\* Any sequence of acquire and release calls by two callers on two keys.
NextLock ==
    \/ Tick(1, MaxLockTime)
    \/ \E p \in Callers, k \in Keys, timeoutMs \in TTLs : Acquire(p, k, timeoutMs)
    \/ \E p \in Callers, k \in Keys : Release(p, k)

SpecLock == InitInstance /\ [][NextLock]_vars

\* ===================================================================== claims
\* The key, result and prior grant of the last call.
LastCheck == lastRes.op = "checkLimit"
LastAcquire == lastRes.op = "acquire"
LastRelease == lastRes.op = "release"
\* All checkLimit calls on k's bucket so far were made within one window of
\* its creation (the clock never goes back).
InFirstWindow(k) == k \in DOMAIN buckets /\ now < created[k] + config.windowMs
\* ghost: checkLimit calls made on k's bucket since its creation.
CallsOn(k) == allowedN[k] + rejN[k]

\* C1 (Spec): with burstAllowance = 0, when N > maxRequests checkLimit calls
\* have been made on a key that had no bucket, in any order with any other
\* calls and all within one window of the first, exactly maxRequests of them
\* returned allowed=true and the other N - maxRequests returned allowed=false.
C1_AtomicConsumption ==
    \A k \in Keys :
        (InFirstWindow(k) /\ config.burstAllowance = 0 /\ CallsOn(k) > config.maxRequests)
        => /\ allowedN[k] = config.maxRequests
           /\ rejN[k] = CallsOn(k) - config.maxRequests

C1_Witness ==
    \E k \in Keys :
        /\ InFirstWindow(k) /\ config.burstAllowance = 0 /\ config.maxRequests = 2
        /\ allowedN[k] = 2 /\ rejN[k] = 2

\* C2 (Spec): after any sequence of checkLimit, resetLimit, getStatus, getStats
\* and cleanup calls at non-decreasing times, every bucket in the store has
\* 0 <= tokens <= maxRequests + burstAllowance.
C2_CapacityInvariant ==
    \A k \in DOMAIN buckets :
        /\ 0 <= buckets[k].tokens
        /\ buckets[k].tokens <= config.maxRequests + config.burstAllowance

\* A bucket that was refilled while it still held a token (the cap applied),
\* next to an exhausted one.
C2_Witness ==
    /\ config.maxRequests = 2 /\ config.burstAllowance = 1
    /\ LastCheck /\ lastRes.key = "k1" /\ lastRes.res.remaining = 2
    /\ buckets["k1"].lastRefill > created["k1"]
    /\ buckets["k1"].totalRequests = 2
    /\ "k2" \in DOMAIN buckets /\ buckets["k2"].tokens = 0

\* C7 (Spec): the first maxRequests + burstAllowance checkLimit calls on a
\* fresh key within one window are allowed, the n-th reporting remaining =
\* maxRequests + burstAllowance - n; every later call in that window is
\* rejected with retryAfter > 0.
C7_BurstThenRejection ==
    LastCheck =>
        LET k == lastRes.key
            n == CallsOn(k)
            cap == config.maxRequests + config.burstAllowance
        IN InFirstWindow(k) =>
              IF n <= cap
              THEN lastRes.res.allowed /\ lastRes.res.remaining = cap - n
              ELSE ~lastRes.res.allowed /\ lastRes.res.retryAfter > 0

C7_Witness ==
    /\ LastCheck /\ InFirstWindow(lastRes.key)
    /\ config.burstAllowance > 0
    /\ CallsOn(lastRes.key) = config.maxRequests + config.burstAllowance + 1
    /\ ~lastRes.res.allowed /\ lastRes.res.retryAfter > 0

\* The case of C8: 7 allowed calls and a rejected 8th were made on the key (so
\* all 8 within the first window: a call after it would have found a refilled
\* bucket), and the last call, the 9th, is made once the window has elapsed.
C8_Case ==
    /\ config.maxRequests = 5 /\ config.windowMs = 1000 /\ config.burstAllowance = 2
    /\ LastCheck /\ lastRes.key \in DOMAIN buckets
    /\ CallsOn(lastRes.key) = 9
    /\ allowedN[lastRes.key] - (IF lastRes.res.allowed THEN 1 ELSE 0) = 7
    /\ now >= created[lastRes.key] + config.windowMs

\* C8 as stated (SpecInstance): in that case the call is allowed and reports
\* remaining = 6.
C8_RefillRemainingSix ==
    C8_Case => lastRes.res.allowed /\ lastRes.res.remaining = 6

\* C8 amended (SpecInstance): in that case the call is allowed; it reports
\* remaining = 4 when fewer than two windows have passed since the bucket was
\* created, and remaining = 6 from two windows on.
C8_RefillRemaining ==
    C8_Case =>
        /\ lastRes.res.allowed
        /\ lastRes.res.remaining =
              (IF now - created[lastRes.key] < 2 * config.windowMs THEN 4 ELSE 6)

C8_Witness == C8_Case /\ lastRes.res.remaining = 4

\* C9 (Spec): cleanup() at time now removes exactly the buckets with
\* now - lastRefill > 2 x windowMs, returns how many it removed, leaves the
\* other buckets as they were, and getStats().activeClients afterwards counts
\* the buckets that were kept.
C9_CleanupExact ==
    [][lastRes'.op = "cleanup" =>
        /\ DOMAIN buckets' =
              {k \in DOMAIN buckets : ~(now - buckets[k].lastRefill > 2 * config.windowMs)}
        /\ \A k \in DOMAIN buckets' : buckets'[k] = buckets[k]
        /\ lastRes'.removed = Cardinality(DOMAIN buckets \ DOMAIN buckets')
        /\ GetStatsOf(buckets').activeClients
              = Cardinality(DOMAIN buckets) - lastRes'.removed]_vars

\* cleanup removed one bucket and kept one that sits exactly at 2 x windowMs.
C9_Witness ==
    /\ lastRes.op = "cleanup" /\ lastRes.removed = 1
    /\ \E k \in DOMAIN buckets : now - buckets[k].lastRefill = 2 * config.windowMs

\* C10 as stated (Spec): a key on which checkLimit was called at most
\* 2 x windowMs before a cleanup() (and not reset since) has its bucket after
\* that cleanup().
C10_TouchedSurvivesTwoWindows ==
    lastRes.op = "cleanup" =>
        \A k \in Keys :
            (touched[k] # NoTime /\ now - touched[k] <= 2 * config.windowMs)
            => k \in DOMAIN buckets

\* C10 amended (Spec): a key on which checkLimit was called at most windowMs
\* before a cleanup() (and not reset since) has its bucket after that cleanup().
C10_TouchedSurvives ==
    lastRes.op = "cleanup" =>
        \A k \in Keys :
            (touched[k] # NoTime /\ now - touched[k] <= config.windowMs)
            => k \in DOMAIN buckets

\* cleanup removed a bucket and kept one touched a full window earlier whose
\* lastRefill is older still.
C10_Witness ==
    /\ lastRes.op = "cleanup" /\ lastRes.removed = 1
    /\ \E k \in DOMAIN buckets :
          /\ now - touched[k] = config.windowMs
          /\ buckets[k].lastRefill < touched[k]

\* The grant the last lock call found on its key.
PriorGrant == lastRes.g
\* That grant's entry has not expired: now - acquiredAt <= ttl.
PriorLive == PriorGrant # NoGrant /\ now - PriorGrant.at <= PriorGrant.ttl

\* C3 as stated (SpecLock): a release by a caller other than the holder of a
\* live entry returns false and leaves the entry in place, and an acquire that
\* follows such a release before the entry expires is refused.
C3_NonOwnerRelease ==
    /\ (LastRelease /\ PriorLive /\ PriorGrant.by # lastRes.by)
       => /\ lastRes.ret = "false"
          /\ lastRes.key \in DOMAIN locks
          /\ locks[lastRes.key] = PriorGrant.at
    /\ (LastAcquire /\ PriorLive /\ PriorGrant.rel) => ~lastRes.ok

\* C4 (SpecLock): acquire on a key with no entry succeeds; an acquire with the
\* holder's ttl value, made before that ttl has elapsed and with no release in
\* between, is refused; a release by the holder removes the entry, so the next
\* acquire finds no entry and succeeds.
C4_LockExclusivity ==
    /\ (LastAcquire /\ lastRes.wasFree) => lastRes.ok
    /\ (LastAcquire /\ PriorGrant # NoGrant /\ ~PriorGrant.rel
           /\ lastRes.ttl = PriorGrant.ttl /\ now - PriorGrant.at < PriorGrant.ttl)
       => ~lastRes.ok
    /\ (LastRelease /\ PriorGrant.by = lastRes.by) => lastRes.key \notin DOMAIN locks

\* The other caller is refused one clock unit after the holder's acquire.
C4_Witness ==
    /\ LastAcquire /\ ~lastRes.ok
    /\ PriorGrant.by # lastRes.by /\ ~PriorGrant.rel
    /\ lastRes.ttl = PriorGrant.ttl /\ now - PriorGrant.at = 1

\* C5 as stated (SpecLock): once acquire(k, ttl1) succeeded at time a, every
\* acquire(k, ttl2) at a time t with t - a <= ttl1 and no release in between is
\* refused, whatever ttl2 is.
C5_HolderTtlDecides ==
    (LastAcquire /\ PriorLive /\ ~PriorGrant.rel) => ~lastRes.ok

\* C6 as stated (SpecLock): of two acquire calls issued together on a key that
\* was free or expired (the second runs right after the first, by another
\* caller, the clock having advanced at most ConcurrencyGap between them),
\* exactly one succeeds: the second is refused.
C6_AtomicAcquire ==
    (LastAcquire /\ PriorGrant # NoGrant /\ PriorGrant.fresh /\ PriorGrant.onFree
        /\ PriorGrant.by # lastRes.by /\ PriorLive
        /\ now - PriorGrant.at <= ConcurrencyGap)
    => ~lastRes.ok

\* ------------------------------------------------------- C11 .. C20 (limiter)
\* The result and the bucket of the first checkLimit on a key that has no bucket.
FirstResult ==
    [allowed |-> TRUE, remaining |-> config.maxRequests + config.burstAllowance - 1,
     resetAt |-> now + config.windowMs]
FirstBucket ==
    [tokens |-> config.maxRequests + config.burstAllowance - 1, lastRefill |-> now,
     totalRequests |-> 1]

\* C11: resetLimit(k) leaves k without a bucket, whatever its history; the next
\* checkLimit(k), like a checkLimit on a key never seen, is allowed with
\* remaining = maxRequests + burstAllowance - 1 and leaves a bucket with
\* totalRequests = 1 refilled at the time of the call; resetLimit on a key that
\* has no bucket changes nothing.
C11_ResetIsNeverSeen ==
    [][ /\ lastRes'.op = "resetLimit" =>
              /\ lastRes'.key \notin DOMAIN buckets'
              /\ lastRes'.key \notin DOMAIN buckets => buckets' = buckets
        /\ (lastRes'.op = "checkLimit" /\ lastRes'.key \notin DOMAIN buckets) =>
              /\ lastRes'.res = FirstResult'
              /\ buckets'[lastRes'.key] = FirstBucket' ]_vars

\* A checkLimit right after the resetLimit that deleted the key's bucket.
C11_Witness ==
    /\ LastCheck
    /\ lastRes.afterReset
    /\ lastRes.res = FirstResult
    /\ buckets[lastRes.key] = FirstBucket

\* C13: checkLimit returns either allowed = true with remaining = the tokens
\* left in the bucket (>= 0) and no retryAfter, or allowed = false with
\* remaining = 0 and retryAfter = max(0, lastRefill + windowMs - now); resetAt is
\* lastRefill + windowMs for the lastRefill stored after the call.
C13_WellFormedResult ==
    LastCheck =>
        LET r == lastRes.res
            b == buckets[lastRes.key]
        IN  /\ lastRes.key \in DOMAIN buckets
            /\ r.resetAt = b.lastRefill + config.windowMs
            /\ IF r.allowed
               THEN /\ r.remaining = b.tokens
                    /\ r.remaining >= 0
                    /\ DOMAIN r = {"allowed", "remaining", "resetAt"}
               ELSE /\ r.remaining = 0
                    /\ DOMAIN r = {"allowed", "remaining", "resetAt", "retryAfter"}
                    /\ r.retryAfter = Max(0, b.lastRefill + config.windowMs - now)

\* A rejection with a positive retryAfter on a bucket that was refilled before.
C13_Witness ==
    /\ LastCheck
    /\ ~lastRes.res.allowed
    /\ lastRes.res.retryAfter > 0
    /\ buckets[lastRes.key].lastRefill > created[lastRes.key]

\* C14: getStatus(k) changes no state: no bucket is created, consumed from or
\* refilled; it returns the stored entry, or nothing for a key without a bucket.
\* (So the checkLimit calls around it see the state they would see without it.)
C14_GetStatusReadOnly ==
    [][ lastRes'.op = "getStatus" =>
            /\ buckets' = buckets
            /\ now' = now
            /\ config' = config
            /\ lastRes'.found = (lastRes'.key \in DOMAIN buckets)
            /\ lastRes'.found => lastRes'.entry = buckets[lastRes'.key] ]_vars

\* getStatus on a key without a bucket, next to a stale bucket a checkLimit
\* would refill.
C14_Witness ==
    /\ lastRes.op = "getStatus"
    /\ ~lastRes.found
    /\ lastRes.key \notin DOMAIN buckets
    /\ \E j \in DOMAIN buckets : now - buckets[j].lastRefill >= config.windowMs

\* C15: getStats returns activeClients = the number of keys that have a bucket
\* and totalTracked = the number of allowed checkLimit results on those keys
\* since their buckets were created, and changes no state.
C15_StatsCount ==
    [][ lastRes'.op = "getStats" =>
            /\ buckets' = buckets
            /\ lastRes'.stats.activeClients =
                   Cardinality({k \in AllKeys : created[k] # NoTime})
            /\ lastRes'.stats.totalTracked = SumOver(allowedN, AllKeys)
            /\ \A k \in DOMAIN buckets : buckets[k].totalRequests = allowedN[k] ]_vars

\* getStats over two buckets, with rejections that must not be counted.
C15_Witness ==
    /\ lastRes.op = "getStats"
    /\ lastRes.stats.activeClients = 2
    /\ lastRes.stats.totalTracked >= 2
    /\ \E k \in Keys : rejN[k] > 0

\* C16 as stated: after any operation other than resetLimit(k), the totalRequests
\* that getStatus(k) shows is not lower than any value it showed since the last
\* resetLimit(k): no checkLimit and cleanup calls make the counter start over.
C16_CounterNeverRestarts ==
    [][ \A k \in Keys :
            k \in DOMAIN buckets' => buckets'[k].totalRequests >= highTotal[k] ]_vars

\* C16, amended: while a key keeps its bucket its totalRequests never goes
\* down, and the bucket goes away only by resetLimit(k) or by a cleanup() that
\* finds now - lastRefill > 2 x windowMs (after which the counter starts over).
C16_CounterMonotonePerBucket ==
    [][ \A k \in Keys :
            /\ (k \in DOMAIN buckets /\ k \in DOMAIN buckets') =>
                   buckets'[k].totalRequests >= buckets[k].totalRequests
            /\ (k \in DOMAIN buckets /\ k \notin DOMAIN buckets') =>
                   \/ lastRes'.op = "resetLimit" /\ lastRes'.key = k
                   \/ /\ lastRes'.op = "cleanup"
                      /\ now - buckets[k].lastRefill > 2 * config.windowMs ]_vars

\* A cleanup that evicted one counted bucket and kept another with its count.
C16_Witness ==
    /\ lastRes.op = "cleanup"
    /\ \E k \in Keys : k \notin DOMAIN buckets /\ highTotal[k] > 0
    /\ \E j \in DOMAIN buckets : buckets[j].totalRequests >= 2

\* The map holding at most the entry of k.
OnlyKey(m, k) == [x \in DOMAIN m \cap {k} |-> m[x]]

\* C19: checkLimit(k) and resetLimit(k) leave the bucket of every other key as
\* it was (present or absent), and what checkLimit(k) returns and stores is
\* decided by the bucket of k, the configuration and the time of the call alone.
C19_KeysIndependent ==
    [][ lastRes'.op \in {"checkLimit", "resetLimit"} =>
            LET k == lastRes'.key IN
            /\ \A j \in AllKeys \ {k} :
                   /\ (j \in DOMAIN buckets') = (j \in DOMAIN buckets)
                   /\ j \in DOMAIN buckets => buckets'[j] = buckets[j]
            /\ lastRes'.op = "checkLimit" =>
                   /\ lastRes'.res = ResultOf(OnlyKey(buckets, k), config, k, now)
                   /\ buckets'[k] = BucketAfter(OnlyKey(buckets, k), config, k, now) ]_vars

\* k1 is rejected while k2 still holds tokens.
C19_Witness ==
    /\ LastCheck
    /\ lastRes.key = "k1"
    /\ ~lastRes.res.allowed
    /\ "k2" \in DOMAIN buckets
    /\ buckets["k2"].tokens > 0

\* C20: checkLimit and cleanup each run to completion (neither holds an await),
\* so they only follow one another.  Every checkLimit(k) leaves its bucket in the
\* map with the admission recorded (tokens = remaining, totalRequests = the
\* admissions since creation), and a cleanup() that runs next, at the same clock
\* reading, keeps that bucket as it is: no admitted consumption is lost.
C20_EvictionConsumptionExclusive ==
    [][ /\ lastRes'.op = "checkLimit" =>
              LET k == lastRes'.key IN
              /\ k \in DOMAIN buckets'
              /\ buckets'[k].totalRequests = allowedN'[k]
              /\ lastRes'.res.allowed => buckets'[k].tokens = lastRes'.res.remaining
        /\ (lastRes.op = "checkLimit" /\ lastRes'.op = "cleanup") =>
              LET k == lastRes.key IN
              /\ k \in DOMAIN buckets'
              /\ buckets'[k] = buckets[k] ]_vars

\* A cleanup that evicted a bucket at a clock reading at which another key was
\* admitted: that key's bucket is there with its admission.
C20_Witness ==
    /\ lastRes.op = "cleanup"
    /\ lastRes.removed >= 1
    /\ \E k \in DOMAIN buckets : touched[k] = now /\ buckets[k].totalRequests >= 1

\* ------------------------------------------------- C12 (construction errors)
\* The configurations the constructor is to accept.
ValidConfig(cfg) == cfg.maxRequests > 0 /\ cfg.windowMs > 0 /\ cfg.burstAllowance >= 0

\* C12: a limiter given maxRequests <= 0, windowMs <= 0 or a negative burst is
\* not constructed, so no checkLimit result is ever computed from such a
\* configuration.
C12_InvalidConfigRejected == LastCheck => ValidConfig(config)

\* --------------------------------------------------- C18 (burst defaults to 0)
\* C18: a DistributedRateLimiter constructed with burstLimit left out or 0
\* admits a new client at most maxRequests times within the first window after
\* its bucket was created (requests counts the admissions since then).
C18_BurstDefaultsToZero ==
    \A k \in DOMAIN distBuckets :
        (OrZero(distRaw.burstLimit) = 0 /\ now < distCreated[k] + distConfig.windowMs) =>
            distBuckets[k].requests <= distConfig.maxRequests

\* ------------------------------------------------ C17 (gateway throttling)
\* The rateCheck and the response of the request in flight or last answered.
RateCheck == CHOOSE r \in request.rateCheck : TRUE
Response == CHOOSE r \in request.response : TRUE

\* C17: every request handled has called checkLimit once, before anything else
\* (the limiter has served as many checkLimit calls as requests were received);
\* a request whose rateCheck is not allowed goes through no route matching,
\* authentication, admin check or handler and is answered 429 with the
\* rateCheck's retryAfter in the body and a Retry-After header of
\* ceil(retryAfter / 1000); 429 is the answer to no other request.
C17_ThrottleFirst ==
    request.pc # "idle" =>
        /\ request.steps # << >>
        /\ request.steps[1] = "checkLimit"
        /\ \A i \in 2..Len(request.steps) : request.steps[i] # "checkLimit"
        /\ LiveCalls = request.seq
        /\ request.rateCheck # {}
        /\ ~RateCheck.allowed =>
               /\ request.steps = <<"checkLimit">>
               /\ request.pc \in {"rateCheck", "done"}
        /\ request.pc = "done" =>
               /\ request.response # {}
               /\ (Response.status = 429) = ~RateCheck.allowed
               /\ Response.status = 429 =>
                      /\ Response.body.retryAfter = RateCheck.retryAfter
                      /\ \E n \in 0..(config.windowMs \div 1000) :
                             /\ Response.headers.RetryAfter = DecimalString(n)
                             /\ 1000 * n >= RateCheck.retryAfter
                             /\ 1000 * (n - 1) < RateCheck.retryAfter

\* A request of k1 answered 429 with a retryAfter that is not a whole number of
\* seconds, after earlier requests of k1 used up the bucket's tokens.
C17_Witness ==
    /\ request.pc = "done"
    /\ request.client = "k1"
    /\ Response.status = 429
    /\ Response.body.retryAfter % 1000 # 0
    /\ allowedN["k1"] = MaxTokens(config)

\* ------------------------------------------------------ C21, C29 (the lock)
\* C21: an entry of key k written at time a and not released is no obstacle to
\* an acquire(k, ttl) made at a time t with t - a > ttl: the call returns true
\* and the entry becomes t, with no other step in between.
C21_LazyExpiry ==
    [][ (/\ lastRes'.op = "acquire"
         /\ lastRes'.key \in DOMAIN locks
         /\ now - locks[lastRes'.key] > lastRes'.ttl) =>
            /\ lastRes'.ok
            /\ locks'[lastRes'.key] = now ]_vars

\* Another caller takes over a lock that its holder never released.
C21_Witness ==
    /\ LastAcquire
    /\ lastRes.ok
    /\ ~lastRes.wasFree
    /\ PriorGrant # NoGrant
    /\ ~PriorGrant.rel
    /\ PriorGrant.by # lastRes.by
    /\ now - PriorGrant.at > lastRes.ttl
    /\ locks[lastRes.key] = now

\* C29: an acquire that returns false leaves the lock table as it was (the
\* entry keeps its time, whoever asked, the holder included), and acquire and
\* release on one key leave the entry of every other key as it was.
C29_RefusedAcquireNoEffect ==
    [][ /\ (lastRes'.op = "acquire" /\ ~lastRes'.ok) => locks' = locks
        /\ lastRes'.op \in {"acquire", "release"} =>
              \A j \in Keys \ {lastRes'.key} :
                  /\ (j \in DOMAIN locks') = (j \in DOMAIN locks)
                  /\ j \in DOMAIN locks => locks'[j] = locks[j] ]_vars

\* The holder itself is refused, later than its acquire, while the other key is
\* held too.
C29_Witness ==
    /\ LastAcquire
    /\ ~lastRes.ok
    /\ PriorGrant # NoGrant
    /\ lastRes.by = PriorGrant.by
    /\ locks[lastRes.key] = PriorGrant.at
    /\ PriorGrant.at < now
    /\ \E j \in Keys \ {lastRes.key} : j \in DOMAIN locks

\* ------------------------------------------------ C23 .. C26 (RateLimiter)
\* C23: for a checkLimit on a stored bucket, with n = floor((now - lastRefill) /
\* windowMs): if n >= 1 the tokens before the token of this call is taken are
\* min(maxRequests + burst, tokens + n x maxRequests) and lastRefill becomes
\* now; if n = 0 tokens and lastRefill are left as they were; in both cases the
\* tokens after the refill are at most maxRequests + burst.
C23_RefillStep ==
    [][ (lastRes'.op = "checkLimit" /\ lastRes'.key \in DOMAIN buckets) =>
            LET b == buckets[lastRes'.key]
                a == buckets'[lastRes'.key]
                n == (now - b.lastRefill) \div config.windowMs
                taken == IF lastRes'.res.allowed THEN 1 ELSE 0
                ceiling == config.maxRequests + config.burstAllowance
            IN  /\ n >= 1 => /\ a.tokens + taken = Min(ceiling, b.tokens + n * config.maxRequests)
                             /\ a.lastRefill = now
                /\ n = 0 => /\ a.tokens + taken = b.tokens
                            /\ a.lastRefill = b.lastRefill
                /\ a.tokens + taken <= ceiling ]_vars

\* The second call on a key, two windows or more after the first, not on a
\* window boundary: the refill is cut at the ceiling and lastRefill is now.
C23_Witness ==
    /\ LastCheck
    /\ CallsOn(lastRes.key) = 2
    /\ now - created[lastRes.key] > 2 * config.windowMs
    /\ (now - created[lastRes.key]) % config.windowMs # 0
    /\ buckets[lastRes.key].lastRefill = now
    /\ buckets[lastRes.key].tokens = config.maxRequests + config.burstAllowance - 1

\* C24: a checkLimit that returns allowed = false leaves the bucket map as it
\* was: no bucket created, no refill, no field of any bucket changed.
C24_RejectionNoEffect ==
    [][ (lastRes'.op = "checkLimit" /\ ~lastRes'.res.allowed) => buckets' = buckets ]_vars

\* A rejection later than the bucket's lastRefill, with the other key's bucket
\* there too.
C24_Witness ==
    /\ LastCheck
    /\ ~lastRes.res.allowed
    /\ rejN[lastRes.key] >= 1
    /\ now > buckets[lastRes.key].lastRefill
    /\ \E j \in Keys \ {lastRes.key} : j \in DOMAIN buckets

\* C25: right after checkLimit(k) the bucket has 0 <= now - lastRefill <
\* windowMs, so the result has now < resetAt <= now + windowMs, and a rejected
\* result has 0 < retryAfter <= windowMs.
C25_RefillRecent ==
    LastCheck =>
        LET b == buckets[lastRes.key]
            r == lastRes.res
        IN  /\ 0 <= now - b.lastRefill
            /\ now - b.lastRefill < config.windowMs
            /\ now < r.resetAt
            /\ r.resetAt <= now + config.windowMs
            /\ ~r.allowed => (0 < r.retryAfter /\ r.retryAfter <= config.windowMs)

\* A rejection one clock unit before the end of the window.
C25_Witness ==
    /\ LastCheck
    /\ ~lastRes.res.allowed
    /\ lastRes.res.retryAfter = 1
    /\ now - buckets[lastRes.key].lastRefill = config.windowMs - 1

\* C26: a bucket created at time c holds totalRequests <= (maxRequests +
\* burstAllowance) + floor((now - c) / windowMs) x maxRequests.
C26_ThroughputBound ==
    \A k \in DOMAIN buckets :
        buckets[k].totalRequests <=
            (config.maxRequests + config.burstAllowance)
                + ((now - created[k]) \div config.windowMs) * config.maxRequests

\* The bound is reached after two refills.
C26_Witness ==
    \E k \in DOMAIN buckets :
        /\ now - created[k] >= 2 * config.windowMs
        /\ buckets[k].totalRequests =
               (config.maxRequests + config.burstAllowance)
                   + ((now - created[k]) \div config.windowMs) * config.maxRequests

\* ------------------------------------- C22 (the timestamps are not a gate)
\* The requestTimestamps maps that differ from the real one in the list of
\* client k: no list, or any list of up to MaxAltStamps admission times, each
\* inside the window (now) or just outside it (now - windowMs).
AltTimestamps(k) ==
    {MapDelete(requestTimestamps, k)} \cup
    { MapSet(requestTimestamps, k, s) :
          s \in UNION { [1..n -> {now - distConfig.windowMs, now}] :
                            n \in 0..MaxAltStamps } }

\* C22: the sliding-window list never gates admission in
\* DistributedRateLimiter: whatever checkLimit returns (allowed, remaining,
\* resetAt) and the bucket map it leaves are what it would return and leave
\* from the same bucket map, config and clock reading with any other list of
\* timestamps for the client.
C22_TimestampsNeverGate ==
    [][ lastRes'.op = "dist.checkLimit" =>
            \A alt \in AltTimestamps(lastRes'.key) :
                LET other == DistCheckLimitOf(distBuckets, alt, distConfig,
                                              lastRes'.key, now, now)
                IN  /\ other.res = lastRes'.res
                    /\ other.buckets = distBuckets' ]_vars

\* A request was admitted although the client's list already held maxRequests
\* admissions inside the window.
C22_Witness ==
    /\ lastRes.op = "dist.checkLimit"
    /\ lastRes.res.allowed
    /\ LET InWindow(t) == t > now - distConfig.windowMs IN
          Len(SelectSeq(requestTimestamps[lastRes.key], InWindow))
              > distConfig.maxRequests

\* ------------------------------------------- C27 (size of the window list)
\* C27 as stated: requestTimestamps of a client never holds more than
\* maxRequests + burstLimit entries.
C27_WindowListBounded ==
    \A k \in DOMAIN requestTimestamps :
        Len(requestTimestamps[k]) <= DistMaxTokens(distConfig)

\* ------------------------------------------ C30 (the two limiters agree)
\* The two limiters hold the same clients, each with the same tokens,
\* lastRefill and request counter.
SameBuckets ==
    /\ DOMAIN buckets = DOMAIN distBuckets
    /\ \A k \in DOMAIN buckets :
          /\ buckets[k].tokens = distBuckets[k].tokens
          /\ buckets[k].lastRefill = distBuckets[k].lastRefill
          /\ buckets[k].totalRequests = distBuckets[k].requests

\* The checkLimit just made on both limiters returned the same allowed,
\* remaining and resetAt.
SameResults ==
    LET r == lastRes'.res
        d == DistCheckLimitOf(distBuckets, requestTimestamps, distConfig,
                              lastRes'.key, now, now).res
    IN  r.allowed = d.allowed /\ r.remaining = d.remaining /\ r.resetAt = d.resetAt

\* C30 as stated: with the same positive integer maxRequests and windowMs and
\* the same burst, not 0, the same calls at the same times give the same
\* results and leave the same buckets in RateLimiter and DistributedRateLimiter.
C30_LimitersAgree ==
    [][ /\ SameBuckets'
        /\ lastRes'.op = "checkLimit" => SameResults ]_vars

\* The checkLimit just made on both limiters returned the same allowed and
\* resetAt, and DistributedRateLimiter's remaining is RateLimiter's, rounded
\* down.
SameResultsRoundedDown ==
    LET r == lastRes'.res
        d == DistCheckLimitOf(distBuckets, requestTimestamps, distConfig,
                              lastRes'.key, now, now).res
    IN  /\ r.allowed = d.allowed
        /\ r.resetAt = d.resetAt
        /\ d.remaining = Floor(r.remaining, config)

\* C30, amended: the two limiters leave the same buckets and return the same
\* allowed and resetAt; they return the same remaining when the burst is a
\* whole number, and otherwise DistributedRateLimiter returns RateLimiter's
\* remaining rounded down.
C30_LimitersAgreeWholeBurst ==
    [][ /\ SameBuckets'
        /\ lastRes'.op = "checkLimit" =>
               /\ SameResultsRoundedDown
               /\ config.burstAllowance % One(config) = 0 => SameResults ]_vars

\* With a whole burst, both limiters admitted a request on tokens of a refill,
\* after the tokens the bucket was created with had all been used.
C30_Witness ==
    /\ config.burstAllowance % One(config) = 0
    /\ lastRes.op = "checkLimit"
    /\ lastRes.res.allowed
    /\ buckets[lastRes.key].lastRefill > created[lastRes.key]
    /\ distBuckets[lastRes.key].requests > MaxTokens(config) \div One(config)

\* ------------------------------------------------- C28 (cleanup, admission)
\* What checkLimit(k) called now would report and leave for later admissions,
\* on the map m: allowed, remaining, and the tokens and lastRefill stored.
Admission(m, k) ==
    <<ResultOf(m, config, k, now).allowed, ResultOf(m, config, k, now).remaining,
      BucketAfter(m, config, k, now).tokens, BucketAfter(m, config, k, now).lastRefill>>

\* C28 as stated: a cleanup() changes no admission: checkLimit(k) reports the
\* same allowed and remaining, and leaves the same tokens and lastRefill, on the
\* map cleanup() left as on the map it found.
C28_CleanupTransparent ==
    [][ lastRes'.op = "cleanup" =>
            \A k \in Keys : Admission(buckets', k) = Admission(buckets, k) ]_vars

\* C28, amended: the same, for configurations with burstAllowance <= maxRequests.
C28_CleanupTransparentSmallBurst ==
    [][ (lastRes'.op = "cleanup" /\ config.burstAllowance <= config.maxRequests) =>
            \A k \in Keys : Admission(buckets', k) = Admission(buckets, k) ]_vars

\* A cleanup, with a burst that is not 0 and not above maxRequests, that evicted
\* a bucket whose tokens had all been used.
C28_Witness ==
    /\ lastRes.op = "cleanup"
    /\ lastRes.removed >= 1
    /\ config.burstAllowance >= 1
    /\ config.burstAllowance <= config.maxRequests
    /\ \E k \in Keys : k \notin DOMAIN buckets /\ highTotal[k] >= MaxTokens(config)
====
